---- MODULE Spec2Model ----
(***************************************************************************)
(* fictional-people.py: the field sanitizers (clamp_dob, sanitize_zip,     *)
(* one_sentence, the name expression of generate_people), the strict array *)
(* extractor (parse_json_strict) and the batch pipeline (generate_people)  *)
(* with the store file it rewrites.                                        *)
(*                                                                         *)
(* A Python str is a sequence of characters; a character is a one-element  *)
(* TLA+ string, or a "U+XXXX" token for a code point outside ASCII.        *)
(* A decoded JSON value is a record [t, v]: t is the Python type.          *)
(***************************************************************************)
EXTENDS Integers, Sequences, FiniteSets, TLC

VARIABLES
    zpc, z,                    \* sanitize_zip: position, local z
    dpc, d, dobOut,            \* clamp_dob: position, argument d, return value
    npc, note, out1, out2,     \* one_sentence: argument, first and second pass
    mpc, nameKey, nameIn, nameOut,  \* the name expression: key, p.get(key), stored value
    ppc, text, result,         \* parse_json_strict: argument text, outcome
    cpc, data, cleaned, cerr,  \* the repair loop: remaining elements, cleaned list
    store, raw, status, batches     \* people.json, the model's reply, the batch's outcome

vars == <<zpc, z, dpc, d, dobOut, npc, note, out1, out2, mpc, nameKey, nameIn,
          nameOut, ppc, text, result, cpc, data, cleaned, cerr, store, raw,
          status, batches>>

zipVars == <<zpc, z>>
dobVars == <<dpc, d, dobOut>>
noteVars == <<npc, note, out1, out2>>
nameVars == <<mpc, nameKey, nameIn, nameOut>>
parseVars == <<ppc, text, result>>
cleanVars == <<cpc, data, cleaned, cerr>>
pipeVars == <<store, raw, status, batches>>

\* What each function leaves alone: the other components.
notZip == <<dobVars, noteVars, nameVars, parseVars, cleanVars, pipeVars>>
notDob == <<zipVars, noteVars, nameVars, parseVars, cleanVars, pipeVars>>
notNote == <<zipVars, dobVars, nameVars, parseVars, cleanVars, pipeVars>>
notName == <<zipVars, dobVars, noteVars, parseVars, cleanVars, pipeVars>>
notParse == <<zipVars, dobVars, noteVars, nameVars, cleanVars, pipeVars>>
notClean == <<zipVars, dobVars, noteVars, nameVars, parseVars, pipeVars>>
notPipe == <<zipVars, dobVars, noteVars, nameVars, parseVars, cleanVars>>

----------------------------------------------------------------------------
(* Characters *)

AsciiDigits == {"0", "1", "2", "3", "4", "5", "6", "7", "8", "9"}

\* ARABIC-INDIC DIGIT THREE: category Nd, so \d matches it and int() reads it as 3.
ArabicThree == "U+0663"

\* A lone surrogate, as json.loads decodes the escape \ud800.
Surrogate == "U+D800"

\* What \d (a str pattern, no re.ASCII) matches.
IsDecimalDigit(c) == c \in AsciiDigits \cup {ArabicThree}

\* What str.strip() strips and \s matches.
IsSpace(c) == c \in {" ", "\n", "\t", "\r", "\f"}

DigitChars == <<"0", "1", "2", "3", "4", "5", "6", "7", "8", "9">>

DigitVal(c) ==
    IF c = ArabicThree THEN 3
    ELSE CHOOSE n \in 0..9 : DigitChars[n + 1] = c

RECURSIVE DecStr(_)
\* f"{n}" for n >= 0
DecStr(n) ==
    IF n < 10 THEN <<DigitChars[n + 1]>>
    ELSE DecStr(n \div 10) \o <<DigitChars[(n % 10) + 1]>>

RECURSIVE Repeat(_, _)
Repeat(c, k) == IF k = 0 THEN <<>> ELSE <<c>> \o Repeat(c, k - 1)

RECURSIVE SeqsUpTo(_, _)
\* All sequences over S of length at most n.
SeqsUpTo(S, n) ==
    IF n = 0 THEN {<<>>}
    ELSE LET shorter == SeqsUpTo(S, n - 1)
         IN  shorter \cup {Append(s, c) : s \in shorter, c \in S}

RECURSIVE LStrip(_)
LStrip(s) == IF s # <<>> /\ IsSpace(Head(s)) THEN LStrip(Tail(s)) ELSE s
RStrip(s) ==
    LET keep == {i \in 1..Len(s) : ~IsSpace(s[i])}
    IN  IF keep = {} THEN <<>>
        ELSE SubSeq(s, 1, CHOOSE i \in keep : \A j \in keep : j <= i)
\* str.strip()
Strip(s) == RStrip(LStrip(s))

\* s[:n]
Truncate(s, n) == IF Len(s) <= n THEN s ELSE SubSeq(s, 1, n)

EndsWith(s, suffix) ==
    /\ Len(s) >= Len(suffix)
    /\ SubSeq(s, Len(s) - Len(suffix) + 1, Len(s)) = suffix

----------------------------------------------------------------------------
(* Decoded JSON values *)

JNull == [t |-> "null", v |-> <<>>]
JStr(s) == [t |-> "str", v |-> s]
JNum(n) == [t |-> "num", v |-> n]
JBool(b) == [t |-> "bool", v |-> b]
JArr(xs) == [t |-> "arr", v |-> xs]
JObj(members) == [t |-> "obj", v |-> members]

\* Python truthiness of a decoded value.
Truthy(x) ==
    CASE x.t = "null" -> FALSE
      [] x.t = "str" -> x.v # <<>>
      [] x.t = "num" -> x.v # 0
      [] x.t = "bool" -> x.v
      [] x.t = "arr" -> x.v # <<>>
      [] x.t = "obj" -> x.v # <<>>

\* x or ""
OrEmpty(x) == IF Truthy(x) THEN x ELSE JStr(<<>>)

----------------------------------------------------------------------------
(* sanitize_zip *)

ZipLo == 10000
ZipHi == 99999
ZipLen == 5

\* re.sub(r"\D", "", s)
StripNonDigits(s) == SelectSeq(s, IsDecimalDigit)

\* The digits of z or "" (z a str or None).
ZipDigits(x) == StripNonDigits(OrEmpty(x).v)

\* The values sanitize_zip can return for the argument x.
ZipOutcomes(x) ==
    IF Len(ZipDigits(x)) # ZipLen
    THEN {DecStr(n) : n \in ZipLo..ZipHi}
    ELSE {ZipDigits(x)}

MaxZipLen == 6
ZipAlphabet == {"0", "7", "-", ArabicThree}
ZipInputs == {JNull} \cup {JStr(s) : s \in SeqsUpTo(ZipAlphabet, MaxZipLen)}

\* Lines 39-40: strip, then test the length.  On the random branch the stripped
\* value is dead (line 41 overwrites z), so it is not kept.
ZipStrip ==
    /\ zpc = "call"
    /\ IF Len(ZipDigits(z)) # ZipLen
       THEN zpc' = "rand" /\ z' = <<>>
       ELSE zpc' = "ret" /\ z' = ZipDigits(z)
    /\ UNCHANGED notZip

\* Line 41: z = f"{random.randint(10000, 99999)}"
ZipRand ==
    /\ zpc = "rand"
    /\ \E n \in ZipLo..ZipHi : z' = DecStr(n)
    /\ zpc' = "ret"
    /\ UNCHANGED notZip

----------------------------------------------------------------------------
(* clamp_dob *)

YearLo == 1920
YearHi == 2024
MonthLo == 1
MonthHi == 12
DayLo == 1
DayHi == 28

RECURSIVE SplitOn(_, _)
\* s.split(sep) for a one-character sep: always at least one piece.
SplitOn(s, sep) ==
    LET hits == {i \in 1..Len(s) : s[i] = sep}
    IN  IF hits = {} THEN <<s>>
        ELSE LET i == CHOOSE k \in hits : \A j \in hits : k <= j
             IN  <<SubSeq(s, 1, i - 1)>> \o SplitOn(SubSeq(s, i + 1, Len(s)), sep)

RECURSIVE DigitsValue(_)
DigitsValue(s) ==
    IF s = <<>> THEN 0
    ELSE 10 * DigitsValue(SubSeq(s, 1, Len(s) - 1)) + DigitVal(s[Len(s)])

\* int(s): surrounding whitespace and one leading sign are accepted, then digits.
\* (A "-" never reaches here: the string was split on it.)
ParseInt(s) ==
    LET t == Strip(s)
        body == IF t # <<>> /\ Head(t) = "+" THEN Tail(t) ELSE t
    IN  IF body # <<>> /\ \A i \in 1..Len(body) : IsDecimalDigit(body[i])
        THEN [ok |-> TRUE, val |-> DigitsValue(body)]
        ELSE [ok |-> FALSE, val |-> 0]

\* Line 26: y, m, day = map(int, d.split("-")); any exception means not ok.
DobParse(x) ==
    IF x.t # "str" THEN [ok |-> FALSE, y |-> 0, m |-> 0, day |-> 0]
    ELSE LET parts == SplitOn(x.v, "-")
         IN  IF Len(parts) = 3 /\ \A i \in 1..3 : ParseInt(parts[i]).ok
             THEN [ok |-> TRUE, y |-> ParseInt(parts[1]).val,
                   m |-> ParseInt(parts[2]).val, day |-> ParseInt(parts[3]).val]
             ELSE [ok |-> FALSE, y |-> 0, m |-> 0, day |-> 0]

Min(a, b) == IF a < b THEN a ELSE b
Max(a, b) == IF a > b THEN a ELSE b

ClampNoLower(v, lo, hi) == Min(v, hi)
\* min(max(v, lo), hi)
Clamp(v, lo, hi) == Min(Max(v, lo), hi)

\* f"{n:0wd}" for n >= 0
ZeroPad(n, w) ==
    LET digits == DecStr(n)
    IN  IF Len(digits) >= w THEN digits ELSE Repeat("0", w - Len(digits)) \o digits

\* f"{y:04d}-{m:02d}-{day:02d}"
FormatDob(y, m, day) ==
    ZeroPad(y, 4) \o <<"-">> \o ZeroPad(m, 2) \o <<"-">> \o ZeroPad(day, 2)

\* The values clamp_dob can return for the argument x.
DobOutcomes(x) ==
    LET p == DobParse(x)
    IN  IF ~p.ok
        THEN {FormatDob(y, m, day) :
                  y \in YearLo..YearHi, m \in MonthLo..MonthHi, day \in DayLo..DayHi}
        ELSE {FormatDob(Clamp(p.y, YearLo, YearHi), Clamp(p.m, MonthLo, MonthHi),
                        Clamp(p.day, DayLo, DayHi))}

YearSlack == 2
MaxMonthIn == 14
MaxDayIn == 30

YearsIn ==
    (YearLo - YearSlack)..(YearLo + YearSlack) \cup (YearHi - YearSlack)..(YearHi + YearSlack)

\* The ways a component is written: bare, zero-padded, with a space, with a sign.
Written(n, w, how) ==
    CASE how = "bare" -> DecStr(n)
      [] how = "padded" -> ZeroPad(n, w)
      [] how = "spaced" -> <<" ">> \o DecStr(n) \o <<" ">>
      [] how = "signed" -> <<"+">> \o DecStr(n)

WellFormedDobs ==
    {JStr(Written(y, 4, how) \o <<"-">> \o Written(m, 2, how) \o <<"-">> \o Written(day, 2, how)) :
        y \in YearsIn, m \in 0..MaxMonthIn, day \in 0..MaxDayIn,
        how \in {"bare", "padded", "spaced", "signed"}}

MalformedDobs ==
    { JStr(<<>>),
      JStr(<<"1", "9", "9", "0", "/", "0", "1", "/", "0", "1">>),
      JStr(<<"1", "9", "9", "0", "-", "0", "1">>),
      JStr(<<"1", "9", "9", "0", "-", "0", "1", "-", "0", "1", "-", "0", "1">>),
      JStr(<<"1", "9", "9", "0", "-", "x", "-", "0", "1">>),
      JStr(<<"-", "5", "-", "0", "1", "-", "0", "1">>),
      JNum(5) }

\* What generate_people can pass at line 116: a str, or a truthy non-str.
DobInputs == WellFormedDobs \cup MalformedDobs

ClampDob ==
    /\ dpc = "call"
    /\ dobOut' \in DobOutcomes(d)
    /\ dpc' = "ret"
    /\ UNCHANGED <<d, notDob>>

----------------------------------------------------------------------------
(* one_sentence *)

MinNoteLen == 20
MaxNoteLen == 60

\* "Nothing notable."
Filler == <<"N", "o", "t", "h", "i", "n", "g", " ", "n", "o", "t", "a", "b", "l", "e", ".">>

RECURSIVE CollapseSpace(_)
\* re.sub(r"\s+", " ", s): every maximal run of whitespace becomes one space.
CollapseSpace(s) ==
    IF s = <<>> THEN <<>>
    ELSE IF IsSpace(Head(s))
         THEN <<" ">> \o CollapseSpace(LStrip(s))
         ELSE <<Head(s)>> \o CollapseSpace(Tail(s))

RECURSIVE CollapseDots(_)
\* while note.endswith(".."): note = note[:-1]
CollapseDots(s) ==
    IF EndsWith(s, <<".", ".">>) THEN CollapseDots(SubSeq(s, 1, Len(s) - 1)) ELSE s

\* Lines 45-53: the note as it stands before the slice of line 54.
NoteBeforeSlice(x) ==
    LET stripped == Strip(OrEmpty(x).v)
        spaced == CollapseSpace(stripped)
        filled == IF Len(spaced) < MinNoteLen THEN Filler ELSE spaced
        ended == IF ~EndsWith(filled, <<".">>) THEN Append(filled, ".") ELSE filled
    IN  CollapseDots(ended)

\* one_sentence without the loop of lines 52-53.
OneSentenceNoCollapse(x) ==
    LET stripped == Strip(OrEmpty(x).v)
        spaced == CollapseSpace(stripped)
        filled == IF Len(spaced) < MinNoteLen THEN Filler ELSE spaced
        ended == IF ~EndsWith(filled, <<".">>) THEN Append(filled, ".") ELSE filled
    IN  Truncate(ended, MaxNoteLen)

\* one_sentence(note), note a str or None
OneSentence(x) == Truncate(NoteBeforeSlice(x), MaxNoteLen)

MaxNotePad == 62
MaxNoteTail == 3
NoteAlphabet == {"a", ".", " ", "\n"}
NoteHeads == {<<>>, <<" ">>}
NotePadChars == {"a", "."}

NoteInputs ==
    {JNull} \cup
    {JStr(head \o Repeat(c, k) \o tail) :
        head \in NoteHeads, c \in NotePadChars, k \in 0..MaxNotePad,
        tail \in SeqsUpTo(NoteAlphabet, MaxNoteTail)}

\* notes = one_sentence(note)
NotePass1 ==
    /\ npc = "call"
    /\ out1' = OneSentence(note)
    /\ npc' = "once"
    /\ UNCHANGED <<note, out2, notNote>>

\* one_sentence run again on its own output
NotePass2 ==
    /\ npc = "once"
    /\ out2' = OneSentence(JStr(out1))
    /\ npc' = "twice"
    /\ UNCHANGED <<note, out1, notNote>>

----------------------------------------------------------------------------
(* The name expression of generate_people, lines 114-115 and 121-122 *)

MaxNameLen == 12

\* "Alex", "Rivera"
DefaultFirst == <<"A", "l", "e", "x">>
DefaultLast == <<"R", "i", "v", "e", "r", "a">>

LowerLetters == {"a", "b"}
UpperLetters == {"A", "B"}
IsLetter(c) == c \in LowerLetters \cup UpperLetters

Upper(c) == CASE c = "a" -> "A" [] c = "b" -> "B" [] OTHER -> c
Lower(c) == CASE c = "A" -> "a" [] c = "B" -> "b" [] OTHER -> c

RECURSIVE TitleFrom(_, _)
\* str.title(): a cased character is upper-cased unless the character before it
\* is cased, and then lower-cased.
TitleFrom(s, prevCased) ==
    IF s = <<>> THEN <<>>
    ELSE <<IF prevCased THEN Lower(Head(s)) ELSE Upper(Head(s))>>
         \o TitleFrom(Tail(s), IsLetter(Head(s)))

RECURSIVE TitleWordsFrom(_, _)
\* Title-casing that starts a new word only after whitespace.
TitleWordsFrom(s, inWord) ==
    IF s = <<>> THEN <<>>
    ELSE <<IF inWord THEN Lower(Head(s)) ELSE Upper(Head(s))>>
         \o TitleWordsFrom(Tail(s), ~IsSpace(Head(s)))

TitleWords(s) == TitleWordsFrom(s, FALSE)
Title(s) == TitleFrom(s, FALSE)

\* (p.get(key) or "").strip().title()[:12]
NameRepair(x) == Truncate(Title(Strip(OrEmpty(x).v)), MaxNameLen)

DefaultFor(key) == IF key = "firstName" THEN DefaultFirst ELSE DefaultLast

\* first or "Alex", last or "Rivera"
StoredName(key, x) ==
    IF NameRepair(x) # <<>> THEN NameRepair(x) ELSE DefaultFor(key)

MaxNamePad == 12
MaxNameEnd == 2
NameAlphabet == {"a", "B", "'", " "}

\* A str, or a value that "or" turns into "": None (also a missing key), 0, false,
\* [] and {}.
NameInputs ==
    {JNull, JNum(0), JBool(FALSE), JArr(<<>>), JObj(<<>>)} \cup
    {JStr(head \o Repeat("a", k) \o tail) :
        head \in SeqsUpTo(NameAlphabet, MaxNameEnd), k \in 0..MaxNamePad,
        tail \in SeqsUpTo(NameAlphabet, MaxNameEnd)}

RepairName ==
    /\ mpc = "call"
    /\ nameOut' = StoredName(nameKey, nameIn)
    /\ mpc' = "ret"
    /\ UNCHANGED <<nameKey, nameIn, notName>>

----------------------------------------------------------------------------
(* json.loads, on the characters the inputs below are written in *)

Fail == [ok |-> FALSE, val |-> JNull, next |-> 0]
Ok(val, next) == [ok |-> TRUE, val |-> val, next |-> next]

\* The JSON whitespace of json.decoder (narrower than \s: no form feed).
IsJsonSpace(c) == c \in {" ", "\t", "\n", "\r"}
IsControl(c) == c \in {"\t", "\n", "\r", "\f"}
HexDigits == AsciiDigits \cup {"a", "b", "c", "d", "e", "f", "A", "B", "C", "D", "E", "F"}

RECURSIVE SkipJsonSpace(_, _)
SkipJsonSpace(s, i) ==
    IF i <= Len(s) /\ IsJsonSpace(s[i]) THEN SkipJsonSpace(s, i + 1) ELSE i

\* The character of a \uXXXX escape; the inputs use d800 (a lone surrogate).
UnicodeEscape(h) ==
    CASE h = <<"d", "8", "0", "0">> -> Surrogate
      [] h = <<"0", "0", "2", "e">> -> "."
      [] OTHER -> "U+FFFD"

SimpleEscape(c) ==
    CASE c = "n" -> "\n" [] c = "t" -> "\t" [] c = "r" -> "\r" [] c = "f" -> "\f"
      [] OTHER -> c

RECURSIVE StringBody(_, _, _)
\* py_scanstring from the character after the opening quote, strict mode.
StringBody(s, j, acc) ==
    IF j > Len(s) THEN Fail
    ELSE IF s[j] = "\"" THEN Ok(JStr(acc), j + 1)
    ELSE IF s[j] = "\\"
         THEN IF j + 1 > Len(s) THEN Fail
              ELSE IF s[j + 1] = "u"
                   THEN IF j + 5 <= Len(s) /\ \A k \in (j + 2)..(j + 5) : s[k] \in HexDigits
                        THEN StringBody(s, j + 6,
                                        Append(acc, UnicodeEscape(SubSeq(s, j + 2, j + 5))))
                        ELSE Fail
                   ELSE IF s[j + 1] \in {"\"", "\\", "/", "n", "t", "r", "f"}
                        THEN StringBody(s, j + 2, Append(acc, SimpleEscape(s[j + 1])))
                        ELSE Fail
    ELSE IF IsControl(s[j]) THEN Fail
    ELSE StringBody(s, j + 1, Append(acc, s[j]))

RECURSIVE DigitRun(_, _)
\* The end of the run of ASCII digits starting at i.
DigitRun(s, i) ==
    IF i <= Len(s) /\ s[i] \in AsciiDigits THEN DigitRun(s, i + 1) ELSE i

\* NUMBER_RE, integers: 0 | [1-9][0-9]*
DecodeNumber(s, i) ==
    IF s[i] = "0" THEN Ok(JNum(0), i + 1)
    ELSE LET e == DigitRun(s, i)
         IN  Ok(JNum(DigitsValue(SubSeq(s, i, e - 1))), e)

StartsWith(s, i, word) ==
    i + Len(word) - 1 <= Len(s) /\ SubSeq(s, i, i + Len(word) - 1) = word

\* dict assignment: a repeated key keeps its place and takes the later value.
DictSet(members, k, v) ==
    IF \E n \in 1..Len(members) : members[n].k = k
    THEN [n \in 1..Len(members) |->
             IF members[n].k = k THEN [k |-> k, v |-> v] ELSE members[n]]
    ELSE Append(members, [k |-> k, v |-> v])

RECURSIVE DecodeValue(_, _)
RECURSIVE ArrayItems(_, _, _)
RECURSIVE ObjectMembers(_, _, _)

\* JSONArray after "[" and its whitespace: value, then "]" or ",".
ArrayItems(s, j, acc) ==
    LET r == DecodeValue(s, j)
    IN  IF ~r.ok THEN Fail
        ELSE LET k == SkipJsonSpace(s, r.next)
             IN  IF k > Len(s) THEN Fail
                 ELSE IF s[k] = "]" THEN Ok(JArr(Append(acc, r.val)), k + 1)
                 ELSE IF s[k] = ","
                      THEN ArrayItems(s, SkipJsonSpace(s, k + 1), Append(acc, r.val))
                 ELSE Fail

\* JSONObject at a key's opening quote: "key" : value, then "}" or ",".
ObjectMembers(s, j, acc) ==
    IF j > Len(s) \/ s[j] # "\"" THEN Fail
    ELSE LET key == StringBody(s, j + 1, <<>>)
         IN  IF ~key.ok THEN Fail
             ELSE LET c == SkipJsonSpace(s, key.next)
                  IN  IF c > Len(s) \/ s[c] # ":" THEN Fail
                      ELSE LET r == DecodeValue(s, SkipJsonSpace(s, c + 1))
                           IN  IF ~r.ok THEN Fail
                               ELSE LET k == SkipJsonSpace(s, r.next)
                                        more == DictSet(acc, key.val.v, r.val)
                                    IN  IF k > Len(s) THEN Fail
                                        ELSE IF s[k] = "}" THEN Ok(JObj(more), k + 1)
                                        ELSE IF s[k] = ","
                                             THEN ObjectMembers(s, SkipJsonSpace(s, k + 1), more)
                                        ELSE Fail

\* scan_once
DecodeValue(s, i) ==
    IF i > Len(s) THEN Fail
    ELSE IF s[i] = "\"" THEN StringBody(s, i + 1, <<>>)
    ELSE IF s[i] = "{"
         THEN LET j == SkipJsonSpace(s, i + 1)
              IN  IF j <= Len(s) /\ s[j] = "}" THEN Ok(JObj(<<>>), j + 1)
                  ELSE ObjectMembers(s, j, <<>>)
    ELSE IF s[i] = "["
         THEN LET j == SkipJsonSpace(s, i + 1)
              IN  IF j <= Len(s) /\ s[j] = "]" THEN Ok(JArr(<<>>), j + 1)
                  ELSE ArrayItems(s, j, <<>>)
    ELSE IF s[i] \in AsciiDigits THEN DecodeNumber(s, i)
    ELSE IF StartsWith(s, i, <<"n", "u", "l", "l">>) THEN Ok(JNull, i + 4)
    ELSE IF StartsWith(s, i, <<"t", "r", "u", "e">>) THEN Ok(JBool(TRUE), i + 4)
    ELSE IF StartsWith(s, i, <<"f", "a", "l", "s", "e">>) THEN Ok(JBool(FALSE), i + 5)
    ELSE Fail

\* json.loads(s): one value, whitespace around it, nothing after.
JsonLoads(s) ==
    LET r == DecodeValue(s, SkipJsonSpace(s, 1))
    IN  IF r.ok /\ SkipJsonSpace(s, r.next) = Len(s) + 1 THEN r ELSE Fail

----------------------------------------------------------------------------
(* parse_json_strict *)

RECURSIVE SkipSpace(_, _)
\* \s* from i
SkipSpace(s, i) == IF i <= Len(s) /\ IsSpace(s[i]) THEN SkipSpace(s, i + 1) ELSE i

\* \[\s*{ matches at i
MatchesAtNoSpace(s, i) == s[i] = "[" /\ i + 1 <= Len(s) /\ s[i + 1] = "{"
MatchesAt(s, i) ==
    /\ s[i] = "["
    /\ LET j == SkipSpace(s, i + 1) IN j <= Len(s) /\ s[j] = "{"

RECURSIVE SearchFrom(_, _)
\* re.search: the leftmost position at which the pattern matches, 0 for None.
SearchFrom(s, i) ==
    IF i > Len(s) THEN 0
    ELSE IF MatchesAt(s, i) THEN i
    ELSE SearchFrom(s, i + 1)

RECURSIVE ScanFirstClose(_, _, _)
\* A scan that stops at the first "]" whatever the depth.
ScanFirstClose(s, i, depth) ==
    IF i > Len(s) THEN 0
    ELSE IF s[i] = "]" THEN i
    ELSE ScanFirstClose(s, i + 1, depth)

RECURSIVE ScanRange(_, _, _, _)
\* Lines 64-71 over the characters lo..hi, entered with depth: the index at which
\* the loop returns (0 if it does not) and the depth it leaves. The characters
\* are visited in order, the left half of the range before the right half.
ScanRange(s, lo, hi, depth) ==
    IF lo > hi THEN [at |-> 0, depth |-> depth]
    ELSE IF lo = hi
    THEN IF s[lo] = "[" THEN [at |-> 0, depth |-> depth + 1]
         ELSE IF s[lo] = "]"
              THEN [at |-> IF depth - 1 = 0 THEN lo ELSE 0, depth |-> depth - 1]
         ELSE [at |-> 0, depth |-> depth]
    ELSE LET left == ScanRange(s, lo, (lo + hi) \div 2, depth)
         IN  IF left.at # 0 THEN left
             ELSE ScanRange(s, (lo + hi) \div 2 + 1, hi, left.depth)

\* Lines 63-71: the index of the "]" that takes depth back to 0, 0 if none.
Scan(s, i, depth) == ScanRange(s, i, Len(s), depth).at

\* parse_json_strict(text): the exception raised or the decoded value, with the
\* bounds of the slice handed to json.loads.
ParseJsonStrict(s) ==
    LET start == SearchFrom(s, 1)
        stop == Scan(s, start, 0)
    IN  IF start = 0
        THEN [kind |-> "NoArrayFound", val |-> JNull, lo |-> 0, hi |-> 0]
        ELSE IF stop = 0
        THEN [kind |-> "UnbalancedArray", val |-> JNull, lo |-> start, hi |-> 0]
        ELSE LET r == JsonLoads(SubSeq(s, start, stop))
             IN  IF r.ok
                 THEN [kind |-> "ok", val |-> r.val, lo |-> start, hi |-> stop]
                 ELSE [kind |-> "DecodeFailure", val |-> JNull, lo |-> start,
                       hi |-> stop]

RECURSIVE Flatten(_)
\* The concatenation of the strings of ss, by halves.
Flatten(ss) ==
    IF ss = <<>> THEN <<>>
    ELSE IF Len(ss) = 1 THEN ss[1]
    ELSE LET h == Len(ss) \div 2
         IN  Flatten(SubSeq(ss, 1, h)) \o Flatten(SubSeq(ss, h + 1, Len(ss)))

\* {"a":1} and {"b":[2]}
ObjA == <<"{", "\"", "a", "\"", ":", "1", "}">>
ObjB == <<"{", "\"", "b", "\"", ":", "[", "2", "]", "}">>
\* "]" : a string literal holding a bracket
StrBracket == <<"\"", "]", "\"">>

MaxFrags == 4
Fragments == {<<"[">>, <<"]">>, <<" ">>, <<",">>, ObjA, ObjB, StrBracket}
\* Noise holding a stray "[" before, an optional opening "[", a stray "]" after.
Prefixes == {<<>>, <<"[", ",">>}
Openers == {<<>>, <<"[">>}
Suffixes == {<<>>, <<"]">>}
ParseInputs ==
    {pre \o open \o Flatten(fs) \o post :
        pre \in Prefixes, open \in Openers, fs \in SeqsUpTo(Fragments, MaxFrags),
        post \in Suffixes}

ParseStep ==
    /\ ppc = "call"
    /\ result' = ParseJsonStrict(text)
    /\ ppc' = "ret"
    /\ UNCHANGED <<text, notParse>>

----------------------------------------------------------------------------
(* The repair loop of generate_people, lines 112-126 *)

kFirst == <<"f", "i", "r", "s", "t", "N", "a", "m", "e">>
kLast == <<"l", "a", "s", "t", "N", "a", "m", "e">>
kDob == <<"d", "a", "t", "e", "O", "f", "B", "i", "r", "t", "h">>
kZip == <<"z", "i", "p", "C", "o", "d", "e">>
kNotes == <<"n", "o", "t", "e", "s">>

\* p.get(key): None when the key is missing.
Get(p, key) ==
    IF \E n \in 1..Len(p.v) : p.v[n].k = key
    THEN p.v[CHOOSE n \in 1..Len(p.v) : p.v[n].k = key].v
    ELSE JNull

\* (x or "") is a str, so .strip() and re.sub accept it.
IsText(x) == OrEmpty(x).t = "str"

\* The exception one iteration raises, "none" if it appends a record: .get on a
\* value that is no dict, .strip() on a truthy non-str (lines 114, 115, 118) and
\* re.sub on one (line 117); clamp_dob catches its own.
CleanErr(p) ==
    IF p.t # "obj" THEN "AttributeError"
    ELSE IF ~IsText(Get(p, kFirst)) \/ ~IsText(Get(p, kLast)) THEN "AttributeError"
    ELSE IF ~IsText(Get(p, kZip)) THEN "TypeError"
    ELSE IF ~IsText(Get(p, kNotes)) THEN "AttributeError"
    ELSE "none"

Person(first, last, dob, zipc, notes) ==
    JObj(<< [k |-> kFirst, v |-> JStr(first)],
            [k |-> kLast, v |-> JStr(last)],
            [k |-> kDob, v |-> JStr(dob)],
            [k |-> kZip, v |-> JStr(zipc)],
            [k |-> kNotes, v |-> JStr(notes)] >>)

\* The records lines 114-126 can append for the element p.
CleanRecords(p) ==
    {Person(StoredName("firstName", Get(p, kFirst)),
            StoredName("lastName", Get(p, kLast)),
            dob, zipc, OneSentence(OrEmpty(Get(p, kNotes)))) :
        dob \in DobOutcomes(OrEmpty(Get(p, kDob))),
        zipc \in ZipOutcomes(OrEmpty(Get(p, kZip)))}

RECURSIVE CleanAll(_, _)
\* The whole loop: the exception that ends it, or the cleaned list.
CleanAll(elems, acc) ==
    IF elems = <<>> THEN {[err |-> "none", recs |-> acc]}
    ELSE IF CleanErr(Head(elems)) # "none"
         THEN {[err |-> CleanErr(Head(elems)), recs |-> acc]}
         ELSE UNION {CleanAll(Tail(elems), Append(acc, r)) :
                        r \in CleanRecords(Head(elems))}

\* A well-formed element, and the values one of its keys may hold instead.
BaseMembers ==
    << [k |-> kFirst, v |-> JStr(<<"a", "b">>)],
       [k |-> kLast, v |-> JStr(<<"b", "'", "a">>)],
       [k |-> kDob, v |-> JStr(<<"1", "9", "9", "0", "-", "0", "7", "-", "0", "9">>)],
       [k |-> kZip, v |-> JStr(<<"0", "0", "7", "0", "7">>)],
       [k |-> kNotes, v |-> JStr(Repeat("a", 19) \o <<".">>)] >>

OtherValues ==
    { JNull, JNum(0), JNum(5), JBool(TRUE), JArr(<<JNum(1)>>), JObj(<<>>) }

\* The base element with member n replaced by x, or dropped.
WithMember(n, x) ==
    JObj([m \in 1..Len(BaseMembers) |->
             IF m = n THEN [k |-> BaseMembers[m].k, v |-> x] ELSE BaseMembers[m]])
WithoutMember(n) ==
    JObj(SubSeq(BaseMembers, 1, n - 1) \o SubSeq(BaseMembers, n + 1, Len(BaseMembers)))

Elements ==
    {JObj(BaseMembers)}
    \cup {WithMember(n, x) : n \in 1..Len(BaseMembers), x \in OtherValues}
    \cup {WithoutMember(n) : n \in 1..Len(BaseMembers)}

\* Elements whose zipCode and dateOfBirth are kept as they are.
IsSettled(p) ==
    /\ Cardinality(DobOutcomes(OrEmpty(Get(p, kDob)))) = 1
    /\ IsText(Get(p, kZip)) => Len(ZipDigits(OrEmpty(Get(p, kZip)))) = ZipLen

MaxData == 2
DataInputs ==
    {<<p>> : p \in Elements}
    \cup SeqsUpTo({p \in Elements : IsSettled(p)}, MaxData)

\* One iteration of the loop.
CleanOne ==
    /\ cpc = "loop" /\ data # <<>>
    /\ IF CleanErr(Head(data)) # "none"
       THEN /\ cerr' = CleanErr(Head(data))
            /\ cpc' = "raised"
            /\ UNCHANGED <<data, cleaned>>
       ELSE /\ \E r \in CleanRecords(Head(data)) : cleaned' = Append(cleaned, r)
            /\ data' = Tail(data)
            /\ UNCHANGED <<cpc, cerr>>
    /\ UNCHANGED notClean

\* The loop runs out of elements.
CleanEnd ==
    /\ cpc = "loop" /\ data = <<>>
    /\ cpc' = "done"
    /\ UNCHANGED <<data, cleaned, cerr, notClean>>

----------------------------------------------------------------------------
(* The store file: json.dump(..., ensure_ascii=False, indent=2) and json.load *)

\* encode_basestring: quotes, backslashes and control characters are escaped,
\* everything else (non-ASCII too) is written as it is.
EscapeChar(c) ==
    CASE c = "\"" -> <<"\\", "\"">>
      [] c = "\\" -> <<"\\", "\\">>
      [] c = "\n" -> <<"\\", "n">>
      [] c = "\t" -> <<"\\", "t">>
      [] c = "\r" -> <<"\\", "r">>
      [] c = "\f" -> <<"\\", "f">>
      [] OTHER -> <<c>>

Literal(s) == <<"\"">> \o Flatten([i \in 1..Len(s) |-> EscapeChar(s[i])]) \o <<"\"">>

NewlineIndent(level) == <<"\n">> \o Repeat(" ", 2 * level)

IsAtom(x) == x.t \in {"str", "num", "bool", "null"}
Atom(x) ==
    CASE x.t = "str" -> Literal(x.v)
      [] x.t = "num" -> DecStr(x.v)
      [] x.t = "bool" -> IF x.v THEN <<"t", "r", "u", "e">> ELSE <<"f", "a", "l", "s", "e">>
      [] x.t = "null" -> <<"n", "u", "l", "l">>

RECURSIVE DumpChunks(_, _)
RECURSIVE ListChunks(_, _, _)
RECURSIVE DictChunks(_, _, _)

\* _iterencode_list from the first remaining item; buf is what precedes it.
ListChunks(xs, level, buf) ==
    IF xs = <<>> THEN <<NewlineIndent(level - 1), <<"]">> >>
    ELSE (IF IsAtom(Head(xs)) THEN <<buf \o Atom(Head(xs))>>
          ELSE <<buf>> \o DumpChunks(Head(xs), level))
         \o ListChunks(Tail(xs), level, <<",">> \o NewlineIndent(level))

\* _iterencode_dict from the first remaining member.
DictChunks(ms, level, first) ==
    IF ms = <<>> THEN <<NewlineIndent(level - 1), <<"}">> >>
    ELSE (IF first THEN <<>> ELSE << <<",">> \o NewlineIndent(level) >>)
         \o <<Literal(Head(ms).k), <<":", " ">> >>
         \o (IF IsAtom(Head(ms).v) THEN <<Atom(Head(ms).v)>>
             ELSE DumpChunks(Head(ms).v, level))
         \o DictChunks(Tail(ms), level, FALSE)

\* The chunks json.dump hands to f.write, x at nesting depth level.
DumpChunks(x, level) ==
    IF IsAtom(x) THEN <<Atom(x)>>
    ELSE IF x.t = "arr"
         THEN IF x.v = <<>> THEN << <<"[", "]">> >>
              ELSE ListChunks(x.v, level + 1, <<"[">> \o NewlineIndent(level + 1))
         ELSE IF x.v = <<>> THEN << <<"{", "}">> >>
              ELSE << <<"{">>, NewlineIndent(level + 1) >>
                   \o DictChunks(x.v, level + 1, TRUE)

HasSurrogate(chunk) == \E i \in 1..Len(chunk) : chunk[i] = Surrogate

\* Lines 130-131: open(outfile, "w") empties the file, then each chunk is encoded
\* and written; a lone surrogate cannot be encoded as UTF-8, and the chunks
\* written before it stay in the file.
WriteFile(x) ==
    LET chunks == DumpChunks(x, 0)
        bad == {i \in 1..Len(chunks) : HasSurrogate(chunks[i])}
    IN  IF bad = {} THEN [ok |-> TRUE, text |-> Flatten(chunks)]
        ELSE [ok |-> FALSE,
              text |-> Flatten(SubSeq(chunks, 1,
                                      (CHOOSE i \in bad : \A j \in bad : i <= j) - 1))]

\* Lines 103-109: a missing file, text that does not decode and a value that is
\* no list all give [].
LoadStore(f) ==
    IF ~f.exists THEN <<>>
    ELSE LET r == JsonLoads(f.text)
         IN  IF r.ok /\ r.val.t = "arr" THEN r.val.v ELSE <<>>

----------------------------------------------------------------------------
(* generate_people, and the loop that calls it *)

\* No people.json yet; call_model raised.
NoFile == [exists |-> FALSE, text |-> <<>>]
NoReply == [ok |-> FALSE, text |-> <<>>]

CombinedAppend(fresh, existing) == existing \o fresh
\* Line 128: cleaned.extend(existing)
Combined(fresh, existing) == fresh \o existing

Quote(s) == <<"\"">> \o s \o <<"\"">>
TextMember(k, valueText) == Quote(k) \o <<":">> \o valueText
RECURSIVE Joined(_)
Joined(parts) ==
    IF parts = <<>> THEN <<>>
    ELSE IF Len(parts) = 1 THEN parts[1]
    ELSE parts[1] \o <<",">> \o Joined(Tail(parts))
TextObject(members) == <<"{">> \o Joined(members) \o <<"}">>
TextArray(items) == <<"[">> \o Joined(items) \o <<"]">>

ZipTextA == Quote(<<"0", "0", "7", "0", "7">>)
ZipTextB == Quote(<<"7", "0", "0", "0", "7">>)
DobTextA == Quote(<<"1", "9", "9", "0", "-", "0", "7", "-", "0", "9">>)
DobTextB == Quote(<<"2", "0", "2", "4", "-", "1", "2", "-", "2", "8">>)

\* {"firstName":"ab","zipCode":"00707","dateOfBirth":"1990-07-09"}
PersonA ==
    TextObject(<<TextMember(kFirst, Quote(<<"a", "b">>)), TextMember(kZip, ZipTextA),
                 TextMember(kDob, DobTextA)>>)
\* {"lastName":"b\"a","zipCode":"70007","dateOfBirth":"2024-12-28"}
PersonB ==
    TextObject(<<TextMember(kLast, Quote(<<"b", "\\", "\"", "a">>)),
                 TextMember(kZip, ZipTextB), TextMember(kDob, DobTextB)>>)
\* {"firstName":"\ud800","zipCode":"00707","dateOfBirth":"1990-07-09"}
PersonSurrogate ==
    TextObject(<<TextMember(kFirst, Quote(<<"\\", "u", "d", "8", "0", "0">>)),
                 TextMember(kZip, ZipTextA), TextMember(kDob, DobTextA)>>)
\* {"zipCode":70007,"dateOfBirth":"1990-07-09"}
PersonNumericZip ==
    TextObject(<<TextMember(kZip, <<"7", "0", "0", "0", "7">>),
                 TextMember(kDob, DobTextA)>>)

MaxBatches == 2
Noise == <<"x", " ">>

\* The arrays the model may reply with: one or two people, some of them
\* holding a lone surrogate or a number for a ZIP code.
Arrays ==
    { <<PersonA>>, <<PersonB>>, <<PersonA, PersonB>>, <<PersonB, PersonA>>,
      <<PersonSurrogate>>, <<PersonB, PersonSurrogate>>,
      <<PersonNumericZip>>, <<PersonA, PersonNumericZip>> }

\* What call_model returns, or its failure.
Replies ==
    {NoReply}
    \cup {[ok |-> TRUE, text |-> Noise \o TextArray(items)] : items \in Arrays}
    \cup {[ok |-> TRUE, text |-> t] :
             t \in {Noise, <<"[">> \o PersonA, <<"[", "{", "]">>}}

\* One batch, lines 99-133.
GeneratePeople ==
    /\ status \in {"idle", "ok"}
    /\ batches < MaxBatches
    /\ batches' = batches + 1
    /\ \E reply \in Replies :
          /\ raw' = reply
          /\ IF ~reply.ok
             THEN /\ status' = "GenerationFailure"
                  /\ UNCHANGED <<store, data, cleaned>>
             ELSE \E r \in {ParseJsonStrict(reply.text)} :
                     IF r.kind # "ok"
                     THEN /\ status' = r.kind
                          /\ UNCHANGED <<store, data, cleaned>>
                     ELSE \E c \in CleanAll(r.val.v, <<>>) :
                             /\ data' = r.val.v
                             /\ cleaned' = c.recs
                             /\ IF c.err # "none"
                                THEN status' = c.err /\ UNCHANGED store
                                ELSE \E existing \in {LoadStore(store)} :
                                     \E w \in {WriteFile(JArr(Combined(c.recs, existing)))} :
                                        /\ store' = [exists |-> TRUE, text |-> w.text]
                                        /\ status' = IF w.ok THEN "ok"
                                                     ELSE "UnicodeEncodeError"
    /\ UNCHANGED <<cpc, cerr, zipVars, dobVars, noteVars, nameVars, parseVars>>

\* The process died on the exception and the script is started again.
Restart ==
    /\ status \notin {"idle", "ok"}
    /\ status' = "idle"
    /\ UNCHANGED <<store, raw, batches, cleanVars, zipVars, dobVars, noteVars,
                   nameVars, parseVars>>

----------------------------------------------------------------------------
(* Idle components, and one specification per function *)

NoResult == [kind |-> "none", val |-> JNull, lo |-> 0, hi |-> 0]

ZipIdle == zpc = "idle" /\ z = <<>>
DobIdle == dpc = "idle" /\ d = JNull /\ dobOut = <<>>
NoteIdle == npc = "idle" /\ note = JNull /\ out1 = <<>> /\ out2 = <<>>
NameIdle == mpc = "idle" /\ nameKey = "firstName" /\ nameIn = JNull /\ nameOut = <<>>
ParseIdle == ppc = "idle" /\ text = <<>> /\ result = NoResult
CleanIdle == cpc = "idle" /\ data = <<>> /\ cleaned = <<>> /\ cerr = "none"
PipeIdle == store = NoFile /\ raw = NoReply /\ status = "idle" /\ batches = 0

InitZip ==
    /\ zpc = "call" /\ z \in ZipInputs
    /\ DobIdle /\ NoteIdle /\ NameIdle /\ ParseIdle /\ CleanIdle /\ PipeIdle
NextZip == ZipStrip \/ ZipRand
SpecZip == InitZip /\ [][NextZip]_vars

InitDob ==
    /\ dpc = "call" /\ d \in DobInputs /\ dobOut = <<>>
    /\ ZipIdle /\ NoteIdle /\ NameIdle /\ ParseIdle /\ CleanIdle /\ PipeIdle
NextDob == ClampDob
SpecDob == InitDob /\ [][NextDob]_vars

InitNotes ==
    /\ npc = "call" /\ note \in NoteInputs /\ out1 = <<>> /\ out2 = <<>>
    /\ ZipIdle /\ DobIdle /\ NameIdle /\ ParseIdle /\ CleanIdle /\ PipeIdle
NextNotes == NotePass1 \/ NotePass2
SpecNotes == InitNotes /\ [][NextNotes]_vars

InitName ==
    /\ mpc = "call" /\ nameKey \in {"firstName", "lastName"}
    /\ nameIn \in NameInputs /\ nameOut = <<>>
    /\ ZipIdle /\ DobIdle /\ NoteIdle /\ ParseIdle /\ CleanIdle /\ PipeIdle
NextName == RepairName
SpecName == InitName /\ [][NextName]_vars

InitParse ==
    /\ ppc = "call" /\ text \in ParseInputs /\ result = NoResult
    /\ ZipIdle /\ DobIdle /\ NoteIdle /\ NameIdle /\ CleanIdle /\ PipeIdle
NextParse == ParseStep
SpecParse == InitParse /\ [][NextParse]_vars

InitClean ==
    /\ cpc = "loop" /\ data \in DataInputs /\ cleaned = <<>> /\ cerr = "none"
    /\ ZipIdle /\ DobIdle /\ NoteIdle /\ NameIdle /\ ParseIdle /\ PipeIdle
NextClean == CleanOne \/ CleanEnd
SpecClean == InitClean /\ [][NextClean]_vars

Init ==
    /\ PipeIdle
    /\ ZipIdle /\ DobIdle /\ NoteIdle /\ NameIdle /\ ParseIdle /\ CleanIdle
Next == GeneratePeople \/ Restart
Spec == Init /\ [][Next]_vars

----------------------------------------------------------------------------
(* Properties of the sanitizers *)

Last(s) == s[Len(s)]

\* C1: whatever its argument, sanitize_zip returns exactly 5 characters, each an
\* ASCII digit '0'..'9'.
C1_ZipFiveAsciiDigits ==
    zpc = "ret" => Len(z) = 5 /\ \A i \in 1..Len(z) : z[i] \in AsciiDigits

\* C2: a cleaned note never ends in more than one period and holds no newline,
\* also when the normalized note is longer than 60 characters and is sliced.
C2_NotesOnePeriodNoNewline ==
    npc # "call" =>
        /\ ~EndsWith(out1, <<".", ".">>)
        /\ \A i \in 1..Len(out1) : out1[i] # "\n"

TwoDigits(o, i) == 10 * DigitVal(o[i]) + DigitVal(o[i + 1])
YearOf(o) == 100 * TwoDigits(o, 1) + TwoDigits(o, 3)
Nearest(v, lo, hi) == IF v < lo THEN lo ELSE IF v > hi THEN hi ELSE v

\* C6: clamp_dob returns a 10-character, zero-padded YYYY-MM-DD with the year in
\* [1920,2024], the month in [1,12] and the day in [1,28]; when the argument parses
\* as three integers each component is the parsed one pulled to its nearest bound.
C6_DobShapeAndClamp ==
    dpc = "ret" =>
        /\ Len(dobOut) = 10
        /\ dobOut[5] = "-" /\ dobOut[8] = "-"
        /\ \A i \in {1, 2, 3, 4, 6, 7, 9, 10} : dobOut[i] \in AsciiDigits
        /\ YearOf(dobOut) \in 1920..2024
        /\ TwoDigits(dobOut, 6) \in 1..12
        /\ TwoDigits(dobOut, 9) \in 1..28
        /\ DobParse(d).ok =>
              /\ YearOf(dobOut) = Nearest(DobParse(d).y, 1920, 2024)
              /\ TwoDigits(dobOut, 6) = Nearest(DobParse(d).m, 1, 12)
              /\ TwoDigits(dobOut, 9) = Nearest(DobParse(d).day, 1, 28)

\* A date below every bound but the day's, which is above: 1918-00-30.
C6_Witness ==
    /\ dpc = "ret"
    /\ d = JStr(<<"1", "9", "1", "8", "-", "0", "-", "3", "0">>)
    /\ dobOut = <<"1", "9", "2", "0", "-", "0", "1", "-", "2", "8">>

\* The slice of line 54 cut the note (and with it the period that ended it).
Sliced(x) == Len(NoteBeforeSlice(x)) > 60

\* C7 as stated: a second pass changes nothing unless the first pass's slice removed
\* the trailing period, and then the second pass's output differs from the first's
\* and ends in a period.
C7_IdempotentUnlessSliced ==
    npc = "twice" =>
        IF Sliced(note)
        THEN out2 # out1 /\ EndsWith(out2, <<".">>)
        ELSE out2 = out1

\* C7 amended: a second pass changes nothing except (a) when the first output is
\* shorter than 20 characters and is not the filler sentence, and then the second
\* pass returns the filler; (b) when the slice left the first output ending in
\* whitespace or in two periods, and then the second pass returns a different
\* string ending in exactly one period.  A sliced output ending in anything else
\* is returned unchanged: the period put back is sliced off again.
C7_SecondPass ==
    npc = "twice" =>
        IF Sliced(note)
        THEN IF IsSpace(Last(out1)) \/ EndsWith(out1, <<".", ".">>)
             THEN /\ out2 # out1
                  /\ EndsWith(out2, <<".">>)
                  /\ ~EndsWith(out2, <<".", ".">>)
             ELSE out2 = out1
        ELSE IF Len(out1) >= 20 \/ out1 = Filler
             THEN out2 = out1
             ELSE out2 = Filler

\* 70 letters: sliced to 60 letters, and the second pass returns the same 60.
C7_Witness ==
    /\ npc = "twice"
    /\ Sliced(note)
    /\ out1 = Repeat("a", 60)
    /\ out2 = out1

Placeholder(key) ==
    IF key = "firstName" THEN <<"A", "l", "e", "x">>
    ELSE <<"R", "i", "v", "e", "r", "a">>

----------------------------------------------------------------------------
(* Properties of parse_json_strict *)

\* A "[" at i followed, with only whitespace between, by a "{".
IsStart(s, i) ==
    /\ s[i] = "["
    /\ \E j \in (i + 1)..Len(s) :
          s[j] = "{" /\ \A k \in (i + 1)..(j - 1) : IsSpace(s[k])

Starts(s) == {i \in 1..Len(s) : IsStart(s, i)}
\* The least element of a set of positions, 0 for the empty set.
Least(S) == IF S = {} THEN 0 ELSE CHOOSE i \in S : \A j \in S : i <= j

\* "[" minus "]" among the characters lo..j.
Balance(s, lo, j) ==
    Cardinality({k \in lo..j : s[k] = "["}) - Cardinality({k \in lo..j : s[k] = "]"})

Closers(s, lo) == {j \in lo..Len(s) : Balance(s, lo, j) = 0}

\* C9: NoArrayFound is raised exactly when no "[" is followed (whitespace only
\* between) by "{"; with such a start, UnbalancedArray is raised exactly when the
\* depth counted from the first start never returns to zero before the text ends.
C9_ErrorsExact ==
    ppc = "ret" =>
        /\ (result.kind = "NoArrayFound") <=> (Starts(text) = {})
        /\ Starts(text) # {} =>
              ((result.kind = "UnbalancedArray")
                  <=> (Closers(text, Least(Starts(text))) = {}))

\* The text [ {"a":1} followed by a space, never closed.
C9_Witness ==
    /\ ppc = "ret"
    /\ text = <<"[", " ">> \o ObjA \o <<" ">>
    /\ result.kind = "UnbalancedArray"

RECURSIVE Render(_)
RECURSIVE RenderItems(_)
RECURSIVE RenderMembers(_)
\* A value written compactly: no whitespace, members and items in order.
Render(x) ==
    CASE x.t = "null" -> <<"n", "u", "l", "l">>
      [] x.t = "bool" -> IF x.v THEN <<"t", "r", "u", "e">> ELSE <<"f", "a", "l", "s", "e">>
      [] x.t = "num" -> DecStr(x.v)
      [] x.t = "str" -> <<"\"">> \o x.v \o <<"\"">>
      [] x.t = "arr" -> <<"[">> \o RenderItems(x.v) \o <<"]">>
      [] x.t = "obj" -> <<"{">> \o RenderMembers(x.v) \o <<"}">>
RenderItems(xs) ==
    IF xs = <<>> THEN <<>>
    ELSE IF Len(xs) = 1 THEN Render(xs[1])
    ELSE Render(xs[1]) \o <<",">> \o RenderItems(Tail(xs))
RenderMembers(ms) ==
    IF ms = <<>> THEN <<>>
    ELSE LET one == <<"\"">> \o ms[1].k \o <<"\"", ":">> \o Render(ms[1].v)
         IN  IF Len(ms) = 1 THEN one ELSE one \o <<",">> \o RenderMembers(Tail(ms))

Squeeze(s) == SelectSeq(s, LAMBDA c : ~IsSpace(c))

\* The values of {"a":1} and {"b":[2]}, and the arrays of up to three of them.
ValA == JObj(<<[k |-> <<"a">>, v |-> JNum(1)]>>)
ValB == JObj(<<[k |-> <<"b">>, v |-> JArr(<<JNum(2)>>)]>>)
KnownArrays == {JArr(xs) : xs \in SeqsUpTo({ValA, ValB}, 3) \ {<<>>}}

\* C10: the slice decoded runs from the first start to the first "]" after it at
\* which the "["/"]" depth is back to zero; the text before and after the slice
\* does not change the outcome; and when the slice is a well-formed array (no
\* bracket inside a string) the result is that array's elements, in order.
C10_SliceAndElements ==
    ppc = "ret" /\ result.kind \in {"ok", "DecodeFailure"} =>
        LET slice == SubSeq(text, result.lo, result.hi)
            alone == ParseJsonStrict(slice)
        IN  /\ result.lo = Least(Starts(text))
            /\ result.hi = Least(Closers(text, result.lo))
            /\ alone.kind = result.kind
            /\ alone.lo = 1 /\ alone.hi = Len(slice)
            /\ result.kind = "ok" =>
                  /\ result.val.t = "arr"
                  /\ Render(alone.val) = Render(result.val)
                  /\ Render(result.val) = Squeeze(slice)
            /\ \A a \in KnownArrays :
                  Squeeze(slice) = Render(a) =>
                      /\ result.kind = "ok"
                      /\ Len(result.val.v) = Len(a.v)
                      /\ \A n \in 1..Len(a.v) :
                            Render(result.val.v[n]) = Render(a.v[n])

\* Noise with a stray "[", then [{"b":[2]},{"a":1}] and a trailing "]".
C10_Witness ==
    /\ ppc = "ret"
    /\ text = <<"[", ",", "[">> \o ObjB \o <<",">> \o ObjA \o <<"]", "]">>
    /\ result.kind = "ok"
    /\ result.lo = 3 /\ result.hi = Len(text) - 1
    /\ Len(result.val.v) = 2
    /\ result.val.v[1].v[1].k = <<"b">>
    /\ result.val.v[2].v[1].k = <<"a">>

----------------------------------------------------------------------------
(* Properties of the repair loop and of the batch *)

\* C3: the repair loop raises no error, whatever keys an element has or lacks and
\* whatever JSON values they hold.
C3_RepairNeverRaises == cpc # "raised"

\* C4: a successful batch whose decoded array has k elements leaves the store
\* holding the k cleaned records, in the order of the array, followed by the
\* records the store held before, unchanged and in their order.
C4_Prepend ==
    [][ (batches' = batches + 1 /\ status' = "ok") =>
            \A before \in {LoadStore(store)} :
            \A after \in {LoadStore(store')} :
            \A elems \in {ParseJsonStrict(raw'.text).val.v} :
                /\ store'.exists
                /\ Len(after) = Len(elems) + Len(before)
                /\ SubSeq(after, Len(elems) + 1, Len(after)) = before
                /\ \A n \in 1..Len(elems) : after[n] \in CleanRecords(elems[n]) ]_vars

\* A second batch of one person on a store of two: three records, the new one first.
C4_Witness ==
    /\ status = "ok" /\ batches = 2
    /\ Len(cleaned) = 1
    /\ Len(LoadStore(store)) = 3
    /\ Get(LoadStore(store)[1], kLast).v = <<"B", "\"", "A">>
    /\ Get(LoadStore(store)[2], kFirst).v = <<"A", "b">>
    /\ Get(LoadStore(store)[3], kLast).v = <<"B", "\"", "A">>

\* C5: a batch that ends in an error leaves the store file exactly as it was.
C5_FailedBatchLeavesStore ==
    [][ (batches' = batches + 1 /\ status' # "ok") => store' = store ]_vars

====
